---- MODULE Spec2Model ----
(***************************************************************************)
(* FlexiMart ETL pipeline (etl_pipeline.py): schema provisioning, the      *)
(* customer and product loaders, the sales aggregator and the report, run  *)
(* by one process against one MySQL database.                              *)
(*                                                                         *)
(* Money is kept in integer cents.  A CSV cell that pandas reads as NaN is *)
(* the value NaN below; Python's None is the value None.  The pass-through *)
(* columns first_name, last_name, city, product_name are left out: the     *)
(* loaders only hand them to the INSERT.                                   *)
(***************************************************************************)
EXTENDS Integers, Sequences, FiniteSets, TLC

VARIABLES
    pc,            \* where the process is
    phase,         \* the phase of __main__ that is running
    run,           \* "first" execution of the script, or "second"
    files,         \* the three CSV files, their rows known once read
    df,            \* the running loader's DataFrame (rows keep their index)
    pos,           \* position of the running for-loop
    id_map,        \* the running loader's id_map
    cust_map,      \* __main__'s cust_map
    prod_map,      \* __main__'s prod_map
    items_loaded,  \* process_sales' items_loaded
    METRICS,       \* the global DataQualityMetrics object
    report,        \* text written by generate_report, as the metrics it shows
    tables,        \* tables that exist in the database
    db,            \* committed rows of the four tables
    txn,           \* rows inserted on the open connection and not yet committed
    autoinc,       \* next AUTO_INCREMENT value of each table
    handles,       \* connections and cursors opened and not closed
    commits,       \* history: conn.commit() calls of each loader in this run
    loadedIdx,     \* history: index labels of the rows whose INSERT succeeded
    resolvedIdx,   \* history: index labels resolved by the duplicate-email lookup
    skippedIdx,    \* history: index labels skipped on another storage error
    db_start,      \* history: the storage as this execution found it
    first_run,     \* history: what the loaders of execution 1 returned
    phone_in,      \* argument of a lone clean_phone call
    phone_out,     \* its result
    date_in,       \* argument of a lone clean_date_series call
    date_out,      \* its result
    call           \* the method and file of the last call on a lone DataQualityMetrics

vars == <<pc, phase, run, files, df, pos, id_map, cust_map, prod_map, items_loaded,
          METRICS, report, tables, db, txn, autoinc, handles, commits,
          loadedIdx, resolvedIdx, skippedIdx, db_start, first_run,
          phone_in, phone_out, date_in, date_out, call>>

pipelineVars == <<pc, phase, run, files, df, pos, id_map, cust_map, prod_map,
                  items_loaded, METRICS, report, tables, db, txn, autoinc,
                  handles, commits, loadedIdx, resolvedIdx, skippedIdx,
                  db_start, first_run>>

-----------------------------------------------------------------------------
(* Bounds of the model.                                                    *)

MaxCustRows == 2
MaxProdRows == 2
MaxSalesRows == 2
MaxPhoneDigits == 11
MaxDateSeries == 2
MaxMetricCalls == 3
MaxMetricCount == 1

-----------------------------------------------------------------------------
(* Values.  A cell of a DataFrame, and every value that may be missing, is *)
(* a record tagged with its kind; source identifiers (customer_id,         *)
(* product_id, transaction_id) are plain values and are never missing.     *)

NaN == [kind |-> "NaN"]
None == [kind |-> "None"]
NaT == [kind |-> "NaT"]

Str(s) == [kind |-> "str", v |-> s]
Num(n) == [kind |-> "num", v |-> n]
Raise(e) == [kind |-> "raise", exc |-> e]

\* pd.isna / Series.isna / pd.notna
isna(v) == v.kind \in {"NaN", "None", "NaT"}

safe_value(val) == IF isna(val) THEN None ELSE val

\* The rows of s at the index positions in S, in their order.
RECURSIVE PickFrom(_, _, _)
PickFrom(s, S, i) ==
    IF i > Len(s) THEN <<>>
    ELSE (IF i \in S THEN <<s[i]>> ELSE <<>>) \o PickFrom(s, S, i + 1)

Pick(s, S) == PickFrom(s, S, 1)

Filter(s, Test(_)) == Pick(s, {i \in 1..Len(s) : Test(s[i])})

Count(s, Test(_)) == Cardinality({i \in 1..Len(s) : Test(s[i])})

RECURSIVE SumSeq(_)
SumSeq(s) == IF s = <<>> THEN 0 ELSE Head(s) + SumSeq(Tail(s))

\* Sequences over S of length at most n.
SeqUpTo(S, n) == UNION {[1..k -> S] : k \in 0..n}

\* A dict: a function on the keys it holds.
EmptyDict == [k \in {} |-> 0]

DictSet(d, k, v) == [x \in DOMAIN d \cup {k} |-> IF x = k THEN v ELSE d[x]]

-----------------------------------------------------------------------------
(* Metrics tracker.                                                        *)

CustomersFile == "../data/customers_raw.csv"
ProductsFile == "../data/products_raw.csv"
SalesFile == "../data/sales_raw.csv"
FileNames == {CustomersFile, ProductsFile, SalesFile}

Reasons == {"missing_email", "missing_price", "orphan_record_missing_parent",
            "invalid_transaction_date"}

\* defaultdict(int): a counter never touched reads 0.
ZeroCounters == [records_read |-> 0, duplicates_removed |-> 0,
                 missing_values_filled |-> 0, rows_dropped |-> 0,
                 records_loaded |-> 0]

NewMetrics == [metrics |-> [f \in FileNames |-> ZeroCounters],
               drop_reasons |-> [f \in FileNames |-> [r \in Reasons |-> 0]]]

\* No call made yet.
NoCall == [op |-> "none", file |-> "none"]

read(M, file, n) ==
    [M EXCEPT !.metrics[file].records_read = @ + n]

dup(M, file, n) ==
    [M EXCEPT !.metrics[file].duplicates_removed = @ + n]

filled(M, file, n) ==
    [M EXCEPT !.metrics[file].missing_values_filled = @ + n]

loaded(M, file, n) ==
    [M EXCEPT !.metrics[file].records_loaded = @ + n]

\* Mutant: the reason is not recorded.
dropped_unexplained(M, file, reason, n) ==
    [M EXCEPT !.metrics[file].rows_dropped = @ + n]

dropped(M, file, reason, n) ==
    [M EXCEPT !.metrics[file].rows_dropped = @ + n,
              !.drop_reasons[file][reason] = @ + n]

-----------------------------------------------------------------------------
(* Date normalizer.  A date string is its three number fields as written   *)
(* and its separator: "15/01/2024" is DateStr(15, 1, 2024, "/").  A parsed *)
(* date is Date(y, m, d).                                                  *)

DateStr(a, b, c, sep) == [kind |-> "str", a |-> a, b |-> b, c |-> c, sep |-> sep]
Date(y, m, d) == [kind |-> "date", y |-> y, m |-> m, d |-> d]

IsLeap(y) == (y % 4 = 0 /\ y % 100 # 0) \/ y % 400 = 0

DaysIn(y, m) ==
    IF m = 2 THEN (IF IsLeap(y) THEN 29 ELSE 28)
    ELSE IF m \in {4, 6, 9, 11} THEN 30 ELSE 31

\* A calendar date pandas can hold: %Y is four digits, and a Timestamp
\* spans the years 1678..2261 in full.
ValidDate(y, m, d) ==
    /\ y \in 1678..2261
    /\ m \in 1..12
    /\ d \in 1..DaysIn(y, m)

\* pd.to_datetime(s, format=fmt, errors='coerce') on one entry.
to_datetime(s, fmt) ==
    IF isna(s) THEN NaT
    ELSE LET ymd == CASE fmt = "%Y-%m-%d" -> [y |-> s.a, m |-> s.b, d |-> s.c, sep |-> "-"]
                      [] fmt = "%d/%m/%Y" -> [y |-> s.c, m |-> s.b, d |-> s.a, sep |-> "/"]
                      [] fmt = "%m-%d-%Y" -> [y |-> s.c, m |-> s.a, d |-> s.b, sep |-> "-"]
                      [] fmt = "%m/%d/%Y" -> [y |-> s.c, m |-> s.a, d |-> s.b, sep |-> "/"]
         IN IF s.sep = ymd.sep /\ ValidDate(ymd.y, ymd.m, ymd.d)
            THEN Date(ymd.y, ymd.m, ymd.d)
            ELSE NaT

\* Mutant: every format overwrites the entries it parses.
FillNaT_overwrite(dates, series, fmt) ==
    [i \in 1..Len(series) |->
        IF isna(to_datetime(series[i], fmt)) THEN dates[i]
        ELSE to_datetime(series[i], fmt)]

\* dates[mask] = pd.to_datetime(series[mask], format=fmt, errors='coerce')
FillNaT(dates, series, fmt) ==
    [i \in 1..Len(series) |->
        IF isna(dates[i]) THEN to_datetime(series[i], fmt) ELSE dates[i]]

clean_date_series(series) ==
    LET d1 == [i \in 1..Len(series) |-> to_datetime(series[i], "%Y-%m-%d")]
        d2 == FillNaT(d1, series, "%d/%m/%Y")
        d3 == FillNaT(d2, series, "%m-%d-%Y")
        d4 == FillNaT(d3, series, "%m/%d/%Y")
    IN d4

\* x.strftime('%Y-%m-%d') if pd.notna(x) else None
strftime_or_none(x) ==
    IF isna(x) THEN None ELSE DateStr(x.y, x.m, x.d, "-")

-----------------------------------------------------------------------------
(* Phone normalizer.  A raw phone is NaN, or a text that float() rejects,  *)
(* or the texts "inf" and "nan", or a number as written: sign, the digits  *)
(* of its mantissa and a power of ten ("9.876e9" has digits 9876 and exp   *)
(* 6, "98765.4" digits 987654 and exp -1).  A Python string is the         *)
(* sequence of its characters.                                             *)

PhoneNum(neg, digits, exp) ==
    [kind |-> "numeric", neg |-> neg, digits |-> digits, exp |-> exp]
PhoneText(t) == [kind |-> "text", v |-> t]
PyStr(chars) == [kind |-> "str", chars |-> chars]

Digits == {"0", "1", "2", "3", "4", "5", "6", "7", "8", "9"}

RECURSIVE StripZeros(_)
StripZeros(s) ==
    IF s # <<>> /\ Head(s) = "0" THEN StripZeros(Tail(s)) ELSE s

Zeros(n) == [i \in 1..n |-> "0"]

\* float(phone): the number, or the exception raised.
float(phone) ==
    IF phone.kind = "text" /\ phone.v \notin {"inf", "nan"}
    THEN Raise("ValueError")
    ELSE phone

\* int(f): truncation toward zero; inf and nan raise.
int(f) ==
    IF f.kind = "text"
    THEN (IF f.v = "inf" THEN Raise("OverflowError") ELSE Raise("ValueError"))
    ELSE LET whole == IF f.exp >= 0 THEN f.digits \o Zeros(f.exp)
                      ELSE SubSeq(f.digits, 1, Len(f.digits) + f.exp)
             mag == StripZeros(whole)
         IN [kind |-> "int", neg |-> f.neg /\ mag # <<>>, mag |-> mag]

\* str(n) of a Python int.
str(n) ==
    (IF n.neg THEN <<"-">> ELSE <<>>) \o (IF n.mag = <<>> THEN <<"0">> ELSE n.mag)

Last10(s) == SubSeq(s, Len(s) - 9, Len(s))

clean_phone(phone) ==
    IF isna(phone) THEN None
    ELSE LET f == float(phone)
         IN IF f.kind = "raise" THEN None
            ELSE LET n == int(f)
                 IN IF n.kind = "raise" THEN None
                    ELSE LET phone_str == str(n)
                         IN IF Len(phone_str) >= 10
                            THEN PyStr(<<"+", "9", "1", "-">> \o Last10(phone_str))
                            ELSE None

-----------------------------------------------------------------------------
(* Storage: the MySQL database behind mysql.connector.  A connection runs  *)
(* with autocommit off: an INSERT is pending on the connection until       *)
(* conn.commit(), and the server discards what is pending when the         *)
(* connection is lost.                                                     *)

TableNames == {"customers", "products", "orders", "order_items"}

NoRows == [t \in TableNames |-> <<>>]

\* What a statement on the open connection sees.
Visible(d, t, table) == d[table] \o t[table]

\* Mutant: the connection commits every statement.
execute_insert_autocommit(d, t, table, row) ==
    [db |-> [d EXCEPT ![table] = Append(@, row)], txn |-> t]

\* cur.execute(INSERT ...) that succeeds: the row is pending.
execute_insert(d, t, table, row) ==
    [db |-> d, txn |-> [t EXCEPT ![table] = Append(@, row)]]

\* conn.commit()
commit(d, t) == [tb \in TableNames |-> d[tb] \o t[tb]]

\* The schema's UNIQUE key on customers.email.
DuplicateEmail(d, t, email) ==
    \E i \in 1..Len(Visible(d, t, "customers")) :
        Visible(d, t, "customers")[i].email = email

\* Mutant: the lookup leaves out the WHERE clause.
select_customer_id_any(d, t, email) ==
    Visible(d, t, "customers")[Len(Visible(d, t, "customers"))].customer_id

\* SELECT customer_id FROM customers WHERE email = %s; fetchone()
select_customer_id(d, t, email) ==
    LET rows == Visible(d, t, "customers")
        i == CHOOSE i \in 1..Len(rows) : rows[i].email = email
    IN rows[i].customer_id

\* Handles a phase opens: get_connection() and conn.cursor().
ConnCur == {"conn", "cur"}

-----------------------------------------------------------------------------
(* DataFrame operations.                                                   *)

\* df.drop_duplicates(subset=..., keep='first'): NaN keys are equal keys.
drop_duplicates(rows, Key(_)) ==
    Pick(rows, {i \in 1..Len(rows) :
                   \A j \in 1..(i - 1) : Key(rows[j]) # Key(rows[i])})

IdxOf(rows) == {rows[i].idx : i \in 1..Len(rows)}

-----------------------------------------------------------------------------
(* 1. Customers.                                                           *)

CustomerRow(i, r) ==
    [idx |-> i, customer_id |-> r.customer_id, email |-> r.email,
     phone |-> r.phone, registration_date |-> r.registration_date]

\* pd.read_csv(file): the rows with their RangeIndex.
read_customers(rows) == [i \in 1..Len(rows) |-> CustomerRow(i, rows[i])]

\* Mutant: a missing email equals no other email, missing or not.
EmailOf_nan_distinct(r) ==
    IF isna(r.email) THEN [kind |-> "NaN", idx |-> r.idx] ELSE r.email

EmailOf(r) == r.email

\* Mutant: the de-duplication by email left out.
cust_dedup_none(rows) == rows

cust_dedup(rows) == drop_duplicates(rows, EmailOf)

MissingEmail(r) == isna(r.email)

HasEmail(r) == ~MissingEmail(r)

\* Mutant: df = df[~missing] forgotten.
cust_drop_missing_kept(rows) == rows

cust_drop_missing(rows) == Filter(rows, HasEmail)

\* Step 4: phone and registration_date of every row.
cust_standardize(rows) ==
    LET dates == clean_date_series([i \in 1..Len(rows) |-> rows[i].registration_date])
    IN [i \in 1..Len(rows) |->
           [rows[i] EXCEPT !.phone = clean_phone(@),
                           !.registration_date = strftime_or_none(dates[i])]]

DateMissing(r) == isna(r.registration_date)

\* Steps 1-4 of process_customers: the DataFrame handed to the insert loop
\* and the metrics after them.
customers_transform(rows, M) ==
    LET df0 == read_customers(rows)
        M1 == read(M, CustomersFile, Len(df0))
        df1 == cust_dedup(df0)
        M2 == dup(M1, CustomersFile, Len(df0) - Len(df1))
        M3 == dropped(M2, CustomersFile, "missing_email", Count(df1, MissingEmail))
        df2 == cust_drop_missing(df1)
        df3 == cust_standardize(df2)
        invalid_dates == Count(df3, DateMissing)
        M4 == IF invalid_dates > 0 THEN filled(M3, CustomersFile, invalid_dates) ELSE M3
    IN [df |-> df3, M |-> M4]

\* The tuple process_customers hands to INSERT INTO customers, with the key
\* the server gives it.
customer_values(row, new_id) ==
    [customer_id |-> new_id, email |-> safe_value(row.email),
     phone |-> safe_value(row.phone),
     registration_date |-> safe_value(row.registration_date)]

\* Inputs: customer rows.
CustIds == {"C1", "C2"}
Emails == {NaN, Str("a@x.com"), Str("b@x.com")}
PhoneSample == [kind |-> "numeric", neg |-> FALSE, exp |-> 0,
                digits |-> <<"9", "8", "7", "6", "5", "4", "3", "2", "1", "0">>]
RegDates == {DateStr(15, 1, 2024, "/"), DateStr(2024, 2, 30, "-")}
CustRows == [customer_id : CustIds, email : Emails, phone : {PhoneSample},
             registration_date : RegDates]
CustFilesAll == SeqUpTo(CustRows, MaxCustRows)

CustRow(id, email) ==
    [customer_id |-> id, email |-> Str(email), phone |-> PhoneSample,
     registration_date |-> DateStr(15, 1, 2024, "/")]

\* Two customer files used while another file ranges over all its values.
CustSamples == {<<CustRow("C1", "a@x.com"), CustRow("C2", "b@x.com")>>,
                <<CustRow("C1", "a@x.com"), CustRow("C2", "a@x.com")>>}

CustFileChoices ==
    IF files.customers.read THEN {files.customers.rows} ELSE CustFilesAll

loaderLocals == <<df, pos, id_map, items_loaded>>
history == <<loadedIdx, resolvedIdx, skippedIdx>>
otherVars == <<run, report, tables, db_start, first_run, phone_in, phone_out,
               date_in, date_out, call>>

\* Lines 332-384: read, de-duplicate, drop, standardize, connect.
CustomersRead ==
    /\ pc = "customers"
    /\ \E rows \in CustFileChoices :
          /\ files' = [files EXCEPT !.customers = [read |-> TRUE, rows |-> rows]]
          /\ df' = customers_transform(rows, METRICS).df
          /\ METRICS' = customers_transform(rows, METRICS).M
    /\ handles' = handles \cup ConnCur
    /\ id_map' = EmptyDict
    /\ pos' = 1
    /\ pc' = "customers_loop"
    /\ phase' = "customers"
    /\ loadedIdx' = {} /\ resolvedIdx' = {} /\ skippedIdx' = {}
    /\ UNCHANGED <<cust_map, prod_map, items_loaded, db, txn, autoinc, commits, otherVars>>

InCustomersLoop == pc = "customers_loop" /\ pos <= Len(df)

\* Lines 391-405: the INSERT succeeds.
CustomersInsertOk ==
    /\ InCustomersLoop
    /\ ~DuplicateEmail(db, txn, df[pos].email)
    /\ LET new_id == autoinc.customers
           r == execute_insert(db, txn, "customers", customer_values(df[pos], new_id))
       IN /\ db' = r.db
          /\ txn' = r.txn
          /\ id_map' = DictSet(id_map, df[pos].customer_id, new_id)
    /\ autoinc' = [autoinc EXCEPT !.customers = @ + 1]
    /\ METRICS' = loaded(METRICS, CustomersFile, 1)
    /\ loadedIdx' = loadedIdx \cup {df[pos].idx}
    /\ pos' = pos + 1
    /\ UNCHANGED <<pc, phase, files, df, cust_map, prod_map, items_loaded, handles,
                   commits, resolvedIdx, skippedIdx, otherVars>>

\* Lines 406-414, 417: 'Duplicate entry' for email, the lookup finds the row.
CustomersInsertDuplicate ==
    /\ InCustomersLoop
    /\ DuplicateEmail(db, txn, df[pos].email)
    /\ id_map' = DictSet(id_map, df[pos].customer_id,
                         select_customer_id(db, txn, df[pos].email))
    /\ resolvedIdx' = resolvedIdx \cup {df[pos].idx}
    /\ pos' = pos + 1
    /\ UNCHANGED <<pc, phase, files, df, cust_map, prod_map, items_loaded, METRICS,
                   db, txn, autoinc, handles, commits, loadedIdx, skippedIdx, otherVars>>

\* Line 410: the lookup itself raises; nothing catches it.
CustomersLookupError ==
    /\ InCustomersLoop
    /\ DuplicateEmail(db, txn, df[pos].email)
    /\ pc' = "raised"
    /\ UNCHANGED <<phase, files, loaderLocals, cust_map, prod_map, METRICS, db, txn,
                   autoinc, handles, commits, history, otherVars>>

\* Lines 415-417: any other storage error; the row is skipped.
CustomersInsertError ==
    /\ InCustomersLoop
    /\ skippedIdx' = skippedIdx \cup {df[pos].idx}
    /\ pos' = pos + 1
    /\ UNCHANGED <<pc, phase, files, df, id_map, cust_map, prod_map, items_loaded,
                   METRICS, db, txn, autoinc, handles, commits, loadedIdx,
                   resolvedIdx, otherVars>>

\* Lines 419-423 and 731: commit, close, return id_map.
CustomersCommit ==
    /\ pc = "customers_loop" /\ pos > Len(df)
    /\ db' = commit(db, txn)
    /\ txn' = NoRows
    /\ commits' = [commits EXCEPT !.customers = @ + 1]
    /\ handles' = handles \ ConnCur
    /\ cust_map' = id_map
    /\ pc' = "products"
    /\ first_run' = IF run = "first"
                    THEN [first_run EXCEPT !.cust_done = TRUE, !.cust_map = id_map,
                                           !.cust_skipped = skippedIdx]
                    ELSE first_run
    /\ UNCHANGED <<phase, files, loaderLocals, prod_map, METRICS, autoinc, history,
                   run, report, tables, db_start, phone_in, phone_out, date_in,
                   date_out, call>>

-----------------------------------------------------------------------------
(* 2. Products.                                                            *)

ProductRow(i, r) ==
    [idx |-> i, product_id |-> r.product_id, price |-> r.price,
     stock_quantity |-> r.stock_quantity]

read_products(rows) == [i \in 1..Len(rows) |-> ProductRow(i, rows[i])]

ProductIdOf(r) == r.product_id

prod_dedup(rows) == drop_duplicates(rows, ProductIdOf)

StockMissing(r) == isna(r.stock_quantity)

\* Mutant: the fillna(0) left out.
prod_fill_stock_none(rows) == rows

\* df['stock_quantity'].fillna(0)
prod_fill_stock(rows) ==
    [i \in 1..Len(rows) |->
        [rows[i] EXCEPT !.stock_quantity = IF isna(@) THEN Num(0) ELSE @]]

PriceMissing(r) == isna(r.price)

HasPrice(r) == ~PriceMissing(r)

prod_drop_missing(rows) == Filter(rows, HasPrice)

\* Steps 1-5 of process_products (the Title Case of category is not modelled).
products_transform(rows, M) ==
    LET df0 == read_products(rows)
        M1 == read(M, ProductsFile, Len(df0))
        df1 == prod_dedup(df0)
        M2 == dup(M1, ProductsFile, Len(df0) - Len(df1))
        null_stock == Count(df1, StockMissing)
        df2 == prod_fill_stock(df1)
        M3 == filled(M2, ProductsFile, null_stock)
        M4 == dropped(M3, ProductsFile, "missing_price", Count(df2, PriceMissing))
        df3 == prod_drop_missing(df2)
    IN [df |-> df3, M |-> M4]

product_values(row, new_id) ==
    [product_id |-> new_id, price |-> safe_value(row.price),
     stock_quantity |-> safe_value(row.stock_quantity)]

\* Inputs: product rows.
ProdIds == {"P1", "P2"}
ProdRows == [product_id : ProdIds, price : {NaN, Num(1000)},
             stock_quantity : {NaN, Num(5)}]
ProdFilesAll == SeqUpTo(ProdRows, MaxProdRows)

\* The product file used while another file ranges over all its values.
ProdSamples ==
    {<<[product_id |-> "P1", price |-> Num(1000), stock_quantity |-> Num(5)],
       [product_id |-> "P2", price |-> NaN, stock_quantity |-> NaN]>>}

ProdFileChoices ==
    IF files.products.read THEN {files.products.rows}
    ELSE IF files.customers.rows \in CustSamples THEN ProdFilesAll
    ELSE ProdSamples

\* Lines 444-485.
ProductsRead ==
    /\ pc = "products"
    /\ \E rows \in ProdFileChoices :
          /\ files' = [files EXCEPT !.products = [read |-> TRUE, rows |-> rows]]
          /\ df' = products_transform(rows, METRICS).df
          /\ METRICS' = products_transform(rows, METRICS).M
    /\ handles' = handles \cup ConnCur
    /\ id_map' = EmptyDict
    /\ pos' = 1
    /\ pc' = "products_loop"
    /\ phase' = "products"
    /\ loadedIdx' = {} /\ resolvedIdx' = {} /\ skippedIdx' = {}
    /\ UNCHANGED <<cust_map, prod_map, items_loaded, db, txn, autoinc, commits, otherVars>>

InProductsLoop == pc = "products_loop" /\ pos <= Len(df)

\* Lines 488-501, the INSERT succeeds.
ProductsInsertOk ==
    /\ InProductsLoop
    /\ LET new_id == autoinc.products
           r == execute_insert(db, txn, "products", product_values(df[pos], new_id))
       IN /\ db' = r.db
          /\ txn' = r.txn
          /\ id_map' = DictSet(id_map, df[pos].product_id, new_id)
    /\ autoinc' = [autoinc EXCEPT !.products = @ + 1]
    /\ METRICS' = loaded(METRICS, ProductsFile, 1)
    /\ loadedIdx' = loadedIdx \cup {df[pos].idx}
    /\ pos' = pos + 1
    /\ UNCHANGED <<pc, phase, files, df, cust_map, prod_map, items_loaded, handles,
                   commits, resolvedIdx, skippedIdx, otherVars>>

\* Mutant: the product loop skips the row as the customer loop does.
ProductsInsertError_skip ==
    /\ InProductsLoop
    /\ skippedIdx' = skippedIdx \cup {df[pos].idx}
    /\ pos' = pos + 1
    /\ UNCHANGED <<pc, phase, files, df, id_map, cust_map, prod_map, items_loaded,
                   METRICS, db, txn, autoinc, handles, commits, loadedIdx,
                   resolvedIdx, otherVars>>

\* Line 491: the INSERT raises; process_products has no try.
ProductsInsertError ==
    /\ InProductsLoop
    /\ pc' = "raised"
    /\ UNCHANGED <<phase, files, loaderLocals, cust_map, prod_map, METRICS, db, txn,
                   autoinc, handles, commits, history, otherVars>>

\* Lines 503-507 and 735.
ProductsCommit ==
    /\ pc = "products_loop" /\ pos > Len(df)
    /\ db' = commit(db, txn)
    /\ txn' = NoRows
    /\ commits' = [commits EXCEPT !.products = @ + 1]
    /\ handles' = handles \ ConnCur
    /\ prod_map' = id_map
    /\ pc' = "sales"
    /\ first_run' = IF run = "first"
                    THEN [first_run EXCEPT !.prod_done = TRUE, !.prod_map = id_map]
                    ELSE first_run
    /\ UNCHANGED <<phase, files, loaderLocals, cust_map, METRICS, autoinc, history,
                   run, report, tables, db_start, phone_in, phone_out, date_in,
                   date_out, call>>

-----------------------------------------------------------------------------
(* 3. Sales: orders and order items.                                       *)

\* Series.map(id_map): the key, or NaN for an id the dict does not hold.
map(id, d) == IF id \in DOMAIN d THEN Num(d[id]) ELSE NaN

SalesRow(i, r) ==
    [idx |-> i, transaction_id |-> r.transaction_id, customer_id |-> r.customer_id,
     product_id |-> r.product_id, quantity |-> r.quantity,
     unit_price |-> r.unit_price, transaction_date |-> r.transaction_date,
     db_customer_id |-> NaN, db_product_id |-> NaN]

read_sales(rows) == [i \in 1..Len(rows) |-> SalesRow(i, rows[i])]

\* All the columns of a row: what df.drop_duplicates() compares.
Columns(r) == [r EXCEPT !.idx = 0]

sales_dedup(rows) == drop_duplicates(rows, Columns)

sales_map_ids(rows, cmap, pmap) ==
    [i \in 1..Len(rows) |->
        [rows[i] EXCEPT !.db_customer_id = map(rows[i].customer_id, cmap),
                        !.db_product_id = map(rows[i].product_id, pmap)]]

\* Mutant: only rows with neither parent count as orphans.
IsOrphanBoth(r) == isna(r.db_customer_id) /\ isna(r.db_product_id)

IsOrphan(r) == isna(r.db_customer_id) \/ isna(r.db_product_id)

NotOrphan(r) == ~isna(r.db_customer_id) /\ ~isna(r.db_product_id)

\* df.dropna(subset=['db_customer_id', 'db_product_id'])
sales_drop_orphans(rows) == Filter(rows, NotOrphan)

sales_standardize(rows) ==
    LET dates == clean_date_series([i \in 1..Len(rows) |-> rows[i].transaction_date])
    IN [i \in 1..Len(rows) |->
           [rows[i] EXCEPT !.transaction_date = strftime_or_none(dates[i])]]

TransactionDateMissing(r) == isna(r.transaction_date)

HasTransactionDate(r) == ~TransactionDateMissing(r)

\* Mutant: the rows with a null date are kept.
sales_drop_invalid_dates_kept(rows) == rows

sales_drop_invalid_dates(rows) == Filter(rows, HasTransactionDate)

\* Steps 1-5 of process_sales.
sales_transform(rows, cmap, pmap, M) ==
    LET df0 == read_sales(rows)
        M1 == read(M, SalesFile, Len(df0))
        df1 == sales_dedup(df0)
        M2 == dup(M1, SalesFile, Len(df0) - Len(df1))
        df2 == sales_map_ids(df1, cmap, pmap)
        M3 == dropped(M2, SalesFile, "orphan_record_missing_parent", Count(df2, IsOrphan))
        valid_sales == sales_standardize(sales_drop_orphans(df2))
        failed_dates == Count(valid_sales, TransactionDateMissing)
    IN IF failed_dates > 0
       THEN [df |-> sales_drop_invalid_dates(valid_sales),
             M |-> dropped(M3, SalesFile, "invalid_transaction_date", failed_dates)]
       ELSE [df |-> valid_sales, M |-> M3]

RECURSIVE Ascending(_)
Ascending(S) ==
    IF S = {} THEN <<>>
    ELSE LET m == CHOOSE x \in S : \A y \in S : x <= y
         IN <<m>> \o Ascending(S \ {m})

\* valid_sales.groupby('transaction_id'): the keys in ascending order, and
\* the rows of one key in the DataFrame's order.
group_keys(rows) == Ascending({rows[i].transaction_id : i \in 1..Len(rows)})

group_rows(rows, trans_id) ==
    Pick(rows, {i \in 1..Len(rows) : rows[i].transaction_id = trans_id})

subtotal(row) == row.quantity * row.unit_price

\* Mutant: the total is the first item's subtotal.
total_amt_first(group) == subtotal(group[1])

\* (group['quantity'] * group['unit_price']).sum()
total_amt(group) == SumSeq([i \in 1..Len(group) |-> subtotal(group[i])])

\* Mutant: the order is that of the group's last row.
order_values_last(group, new_order_id) ==
    [order_id |-> new_order_id, customer_id |-> group[Len(group)].db_customer_id.v,
     order_date |-> group[Len(group)].transaction_date,
     total_amount |-> total_amt(group), status |-> "Completed"]

\* Lines 592-607: the order of one group.
order_values(group, new_order_id) ==
    [order_id |-> new_order_id, customer_id |-> group[1].db_customer_id.v,
     order_date |-> group[1].transaction_date, total_amount |-> total_amt(group),
     status |-> "Completed"]

\* Mutant: the item is given the customer's key for its product.
item_values_by_customer(row, new_order_id, item_id) ==
    [order_item_id |-> item_id, order_id |-> new_order_id,
     product_id |-> row.db_customer_id.v, quantity |-> row.quantity,
     unit_price |-> row.unit_price, subtotal |-> row.quantity * row.unit_price]

item_values(row, new_order_id, item_id) ==
    [order_item_id |-> item_id, order_id |-> new_order_id,
     product_id |-> row.db_product_id.v, quantity |-> row.quantity,
     unit_price |-> row.unit_price, subtotal |-> subtotal(row)]

\* item_rows of one group, the first n of them inserted.
RECURSIVE insert_items(_, _, _, _, _, _)
insert_items(d, t, group, n, new_order_id, item_id) ==
    IF n = 0 THEN [db |-> d, txn |-> t]
    ELSE LET r == insert_items(d, t, group, n - 1, new_order_id, item_id)
         IN execute_insert(r.db, r.txn, "order_items",
                           item_values(group[n], new_order_id, item_id + n - 1))

\* Inputs: sales rows.
TxnIds == {1, 2}
SalesLines == {[quantity |-> 2, unit_price |-> 1000], [quantity |-> 1, unit_price |-> 500]}
TxnDates == {DateStr(2024, 1, 15, "-"), DateStr(2024, 15, 1, "/")}
SalesRows ==
    {[transaction_id |-> tid, customer_id |-> c, product_id |-> p,
      quantity |-> l.quantity, unit_price |-> l.unit_price, transaction_date |-> d] :
        tid \in TxnIds, c \in CustIds, p \in ProdIds, l \in SalesLines, d \in TxnDates}
SalesFilesAll == SeqUpTo(SalesRows, MaxSalesRows)

SaleRow(tid, c, p, q, price, d) ==
    [transaction_id |-> tid, customer_id |-> c, product_id |-> p,
     quantity |-> q, unit_price |-> price, transaction_date |-> d]

\* Sales files used while another file ranges over all its values.
SalesSamples ==
    {<<SaleRow(1, "C1", "P1", 2, 1000, DateStr(2024, 1, 15, "-")),
       SaleRow(1, "C2", "P2", 1, 500, DateStr(2024, 1, 15, "-"))>>,
     <<SaleRow(2, "C2", "P1", 1, 500, DateStr(2024, 1, 15, "-")),
       SaleRow(1, "C1", "P1", 2, 1000, DateStr(2024, 15, 1, "/"))>>}

SalesFileChoices ==
    IF files.sales.read THEN {files.sales.rows}
    ELSE IF files.customers.rows \in CustSamples /\ files.products.rows \in ProdSamples
         THEN SalesFilesAll
    ELSE SalesSamples

\* Lines 533-587.
SalesRead ==
    /\ pc = "sales"
    /\ \E rows \in SalesFileChoices :
          /\ files' = [files EXCEPT !.sales = [read |-> TRUE, rows |-> rows]]
          /\ df' = sales_transform(rows, cust_map, prod_map, METRICS).df
          /\ METRICS' = sales_transform(rows, cust_map, prod_map, METRICS).M
    /\ handles' = handles \cup ConnCur
    /\ items_loaded' = 0
    /\ pos' = 1
    /\ pc' = "sales_loop"
    /\ phase' = "sales"
    /\ loadedIdx' = {} /\ resolvedIdx' = {} /\ skippedIdx' = {}
    /\ UNCHANGED <<id_map, cust_map, prod_map, db, txn, autoinc, commits, otherVars>>

InSalesLoop == pc = "sales_loop" /\ pos <= Len(group_keys(df))

CurrentGroup == group_rows(df, group_keys(df)[pos])

\* Lines 590-629 for one transaction: the order and all its items go in.
SalesInsertGroupOk ==
    /\ InSalesLoop
    /\ LET group == CurrentGroup
           new_order_id == autoinc.orders
           o == execute_insert(db, txn, "orders", order_values(group, new_order_id))
           r == insert_items(o.db, o.txn, group, Len(group), new_order_id,
                             autoinc.order_items)
       IN /\ db' = r.db
          /\ txn' = r.txn
          /\ autoinc' = [autoinc EXCEPT !.orders = @ + 1,
                                        !.order_items = @ + Len(group)]
          /\ items_loaded' = items_loaded + Len(group)
          /\ loadedIdx' = loadedIdx \cup IdxOf(group)
    /\ pos' = pos + 1
    /\ UNCHANGED <<pc, phase, files, df, id_map, cust_map, prod_map, METRICS, handles,
                   commits, resolvedIdx, skippedIdx, otherVars>>

\* Line 601: the INSERT of the order raises; process_sales has no try.
SalesOrderError ==
    /\ InSalesLoop
    /\ pc' = "raised"
    /\ UNCHANGED <<phase, files, loaderLocals, cust_map, prod_map, METRICS, db, txn,
                   autoinc, handles, commits, history, otherVars>>

\* Line 624: the order and n items are in, the INSERT of the next item raises.
SalesItemError ==
    /\ InSalesLoop
    /\ \E n \in 0..(Len(CurrentGroup) - 1) :
          LET group == CurrentGroup
              new_order_id == autoinc.orders
              o == execute_insert(db, txn, "orders", order_values(group, new_order_id))
              r == insert_items(o.db, o.txn, group, n, new_order_id, autoinc.order_items)
          IN /\ db' = r.db
             /\ txn' = r.txn
             /\ autoinc' = [autoinc EXCEPT !.orders = @ + 1, !.order_items = @ + n]
             /\ loadedIdx' = loadedIdx \cup IdxOf(SubSeq(group, 1, n))
    /\ pc' = "raised"
    /\ UNCHANGED <<phase, files, loaderLocals, cust_map, prod_map, METRICS, handles,
                   commits, resolvedIdx, skippedIdx, otherVars>>

\* Lines 631-635.
SalesCommit ==
    /\ pc = "sales_loop" /\ pos > Len(group_keys(df))
    /\ db' = commit(db, txn)
    /\ txn' = NoRows
    /\ commits' = [commits EXCEPT !.sales = @ + 1]
    /\ METRICS' = loaded(METRICS, SalesFile, items_loaded)
    /\ handles' = handles \ ConnCur
    /\ pc' = "report"
    /\ UNCHANGED <<phase, files, loaderLocals, cust_map, prod_map, autoinc, history,
                   otherVars>>

-----------------------------------------------------------------------------
(* Schema provisioning, the report, and the process.                       *)

schema_statements_exec == <<"customers", "products", "orders", "order_items">>

\* Lines 105-124: the database is created on a connection of its own, which
\* is closed; then the connection for the tables is opened.
SchemaConnect ==
    /\ pc = "schema"
    /\ handles' = handles \cup ConnCur
    /\ pos' = 1
    /\ pc' = "schema_loop"
    /\ UNCHANGED <<phase, files, df, id_map, items_loaded, cust_map, prod_map, METRICS,
                   db, txn, autoinc, commits, history, otherVars>>

\* Lines 217-220: CREATE TABLE IF NOT EXISTS, committed at once.
SchemaCreateTable ==
    /\ pc = "schema_loop" /\ pos <= Len(schema_statements_exec)
    /\ tables' = tables \cup {schema_statements_exec[pos]}
    /\ pos' = pos + 1
    /\ UNCHANGED <<pc, phase, run, files, df, id_map, items_loaded, cust_map, prod_map,
                   METRICS, report, db, txn, autoinc, handles, commits, history,
                   db_start, first_run, phone_in, phone_out, date_in, date_out, call>>

\* Mutant: the except clause does not raise again.
SchemaCreateError_swallowed ==
    /\ pc = "schema_loop" /\ pos <= Len(schema_statements_exec)
    /\ pos' = pos + 1
    /\ UNCHANGED <<pc, phase, files, df, id_map, items_loaded, cust_map, prod_map,
                   METRICS, db, txn, autoinc, handles, commits, history, otherVars>>

\* Lines 221-223: the statement fails and the error is raised again.
SchemaCreateError ==
    /\ pc = "schema_loop" /\ pos <= Len(schema_statements_exec)
    /\ pc' = "raised"
    /\ UNCHANGED <<phase, files, loaderLocals, cust_map, prod_map, METRICS, db, txn,
                   autoinc, handles, commits, history, otherVars>>

\* Lines 225-233.
SchemaExport ==
    /\ pc = "schema_loop" /\ pos > Len(schema_statements_exec)
    /\ handles' = handles \ ConnCur
    /\ pc' = "customers"
    /\ UNCHANGED <<phase, files, loaderLocals, cust_map, prod_map, METRICS, db, txn,
                   autoinc, commits, history, otherVars>>

\* What generate_report writes for one file.
report_lines(M, file) ==
    LET stats == M.metrics[file]
    IN [records_processed |-> stats.records_read,
        duplicates_removed |-> stats.duplicates_removed,
        total_missing |-> stats.missing_values_filled + stats.rows_dropped,
        filled |-> stats.missing_values_filled,
        dropped |-> stats.rows_dropped,
        records_loaded |-> stats.records_loaded,
        has_success_rate |-> stats.records_read > 0,
        drop_reasons |-> M.drop_reasons[file]]

\* Lines 657-697 and 742-743.
GenerateReport ==
    /\ pc = "report"
    /\ report' = [f \in FileNames |-> report_lines(METRICS, f)]
    /\ phase' = "report"
    /\ pc' = "done"
    /\ UNCHANGED <<run, files, loaderLocals, cust_map, prod_map, METRICS, tables, db,
                   txn, autoinc, handles, commits, history, db_start, first_run,
                   phone_in, phone_out, date_in, date_out, call>>

\* The exception reaches the top of the script: the process ends, its
\* connection is lost and the server rolls back what was pending on it.
ProcessExit ==
    /\ pc = "raised"
    /\ pc' = "exited"
    /\ txn' = NoRows
    /\ UNCHANGED <<phase, files, loaderLocals, cust_map, prod_map, METRICS, db,
                   autoinc, handles, commits, history, otherVars>>

NoReport == [f \in FileNames |-> report_lines(NewMetrics, f)]
NoCommits == [customers |-> 0, products |-> 0, sales |-> 0]

\* The script is run again on the same files and the same database.
Rerun ==
    /\ pc \in {"done", "exited"}
    /\ run = "first"
    /\ run' = "second"
    /\ pc' = "schema"
    /\ phase' = "schema"
    /\ df' = <<>> /\ pos' = 1 /\ id_map' = EmptyDict /\ items_loaded' = 0
    /\ cust_map' = EmptyDict /\ prod_map' = EmptyDict
    /\ METRICS' = NewMetrics
    /\ handles' = {}
    /\ commits' = NoCommits
    /\ loadedIdx' = {} /\ resolvedIdx' = {} /\ skippedIdx' = {}
    /\ db_start' = db
    /\ UNCHANGED <<files, report, tables, db, txn, autoinc, first_run, phone_in,
                   phone_out, date_in, date_out, call>>

-----------------------------------------------------------------------------
(* Specifications.                                                         *)

\* A customer stored by an earlier execution of the script.
ExistingCustomer ==
    [customer_id |-> 1, email |-> Str("a@x.com"), phone |-> clean_phone(PhoneSample),
     registration_date |-> DateStr(2024, 1, 15, "-")]

NoFile == [read |-> FALSE, rows |-> <<>>]

NoFirstRun == [cust_done |-> FALSE, cust_map |-> EmptyDict, cust_skipped |-> {},
               prod_done |-> FALSE, prod_map |-> EmptyDict]

InitProcess ==
    /\ pc = "schema"
    /\ phase = "schema"
    /\ run = "first"
    /\ df = <<>> /\ pos = 1 /\ id_map = EmptyDict /\ items_loaded = 0
    /\ cust_map = EmptyDict /\ prod_map = EmptyDict
    /\ METRICS = NewMetrics
    /\ report = NoReport
    /\ txn = NoRows
    /\ handles = {}
    /\ commits = NoCommits
    /\ loadedIdx = {} /\ resolvedIdx = {} /\ skippedIdx = {}
    /\ first_run = NoFirstRun
    /\ phone_in = NaN
    /\ phone_out = None
    /\ date_in = <<>>
    /\ date_out = <<>>
    /\ call = NoCall

\* The database is new, or holds what an earlier execution left.
InitStorage ==
    /\ \/ /\ tables = {}
          /\ db = NoRows
          /\ autoinc = [t \in TableNames |-> 1]
       \/ /\ tables = TableNames
          /\ db = [NoRows EXCEPT !.customers = <<ExistingCustomer>>]
          /\ autoinc = [[t \in TableNames |-> 1] EXCEPT !.customers = 2]
    /\ db_start = db

Init ==
    /\ InitProcess
    /\ InitStorage
    /\ files = [customers |-> NoFile, products |-> NoFile, sales |-> NoFile]

Next ==
    \/ SchemaConnect \/ SchemaCreateTable \/ SchemaCreateError \/ SchemaExport
    \/ CustomersRead \/ CustomersInsertOk \/ CustomersInsertDuplicate
    \/ CustomersLookupError \/ CustomersInsertError \/ CustomersCommit
    \/ ProductsRead \/ ProductsInsertOk \/ ProductsInsertError \/ ProductsCommit
    \/ SalesRead \/ SalesInsertGroupOk \/ SalesOrderError \/ SalesItemError
    \/ SalesCommit
    \/ GenerateReport
    \/ ProcessExit

Spec == Init /\ [][Next]_vars

\* The sales file of the executions that are repeated.
RerunSalesFile ==
    <<SaleRow(1, "C1", "P1", 2, 1000, DateStr(2024, 1, 15, "-")),
      SaleRow(1, "C2", "P2", 1, 500, DateStr(2024, 1, 15, "-"))>>

InitRerun ==
    /\ InitProcess
    /\ tables = {} /\ db = NoRows /\ db_start = NoRows
    /\ autoinc = [t \in TableNames |-> 1]
    /\ files = [customers |-> NoFile, products |-> NoFile,
                sales |-> [read |-> TRUE, rows |-> RerunSalesFile]]

NextRerun == Next \/ Rerun

\* The script run on a new database, and then run again on the same files
\* and the same database.
SpecRerun == InitRerun /\ [][NextRerun]_vars

-----------------------------------------------------------------------------
(* clean_phone on its own.                                                 *)

PhoneDigitStrings == UNION {[1..n -> {"0", "7"}] : n \in 1..MaxPhoneDigits}

PhoneInputs ==
    {NaN, PhoneText("abc"), PhoneText("inf"), PhoneText("nan")}
    \cup {PhoneNum(neg, d, e) : neg \in BOOLEAN, d \in PhoneDigitStrings, e \in {-1, 0, 1}}

InitPhone ==
    /\ pc = "call"
    /\ phase = "clean_phone"
    /\ run = "first"
    /\ files = [customers |-> NoFile, products |-> NoFile, sales |-> NoFile]
    /\ df = <<>> /\ pos = 1 /\ id_map = EmptyDict /\ items_loaded = 0
    /\ cust_map = EmptyDict /\ prod_map = EmptyDict
    /\ METRICS = NewMetrics
    /\ report = NoReport
    /\ tables = {} /\ db = NoRows /\ txn = NoRows
    /\ autoinc = [t \in TableNames |-> 1]
    /\ handles = {}
    /\ commits = NoCommits
    /\ loadedIdx = {} /\ resolvedIdx = {} /\ skippedIdx = {}
    /\ db_start = NoRows
    /\ first_run = NoFirstRun
    /\ phone_in \in PhoneInputs
    /\ phone_out = None
    /\ date_in = <<>>
    /\ date_out = <<>>
    /\ call = NoCall

CleanPhone ==
    /\ pc = "call"
    /\ phone_out' = clean_phone(phone_in)
    /\ pc' = "returned"
    /\ UNCHANGED <<phase, run, files, df, pos, id_map, cust_map, prod_map,
                   items_loaded, METRICS, report, tables, db, txn, autoinc, handles,
                   commits, loadedIdx, resolvedIdx, skippedIdx, db_start, first_run,
                   phone_in, date_in, date_out, call>>

SpecPhone == InitPhone /\ [][CleanPhone]_vars

-----------------------------------------------------------------------------
(* clean_date_series on its own.                                           *)

\* The fields of the date strings tried: a day or month that is both, a day
\* no month has, and a year.  The middle field is never the year.
DateFields == {3, 4, 31, 2024}

DateInputs ==
    {NaN} \cup {DateStr(a, b, c, sep) : a \in DateFields, b \in DateFields \ {2024},
                                        c \in DateFields \ {3}, sep \in {"-", "/"}}

InitDate ==
    /\ pc = "call"
    /\ phase = "clean_date_series"
    /\ run = "first"
    /\ files = [customers |-> NoFile, products |-> NoFile, sales |-> NoFile]
    /\ df = <<>> /\ pos = 1 /\ id_map = EmptyDict /\ items_loaded = 0
    /\ cust_map = EmptyDict /\ prod_map = EmptyDict
    /\ METRICS = NewMetrics
    /\ report = NoReport
    /\ tables = {} /\ db = NoRows /\ txn = NoRows
    /\ autoinc = [t \in TableNames |-> 1]
    /\ handles = {}
    /\ commits = NoCommits
    /\ loadedIdx = {} /\ resolvedIdx = {} /\ skippedIdx = {}
    /\ db_start = NoRows
    /\ first_run = NoFirstRun
    /\ phone_in = NaN
    /\ phone_out = None
    /\ date_in \in SeqUpTo(DateInputs, MaxDateSeries)
    /\ date_out = <<>>
    /\ call = NoCall

CleanDates ==
    /\ pc = "call"
    /\ phase = "clean_date_series"
    /\ date_out' = clean_date_series(date_in)
    /\ pc' = "returned"
    /\ UNCHANGED <<phase, run, files, df, pos, id_map, cust_map, prod_map,
                   items_loaded, METRICS, report, tables, db, txn, autoinc, handles,
                   commits, loadedIdx, resolvedIdx, skippedIdx, db_start, first_run,
                   phone_in, phone_out, date_in, call>>

SpecDate == InitDate /\ [][CleanDates]_vars

-----------------------------------------------------------------------------
(* A DataQualityMetrics object on its own, called in any order.            *)

InitMetrics ==
    /\ pc = "tracker"
    /\ phase = "metrics"
    /\ run = "first"
    /\ files = [customers |-> NoFile, products |-> NoFile, sales |-> NoFile]
    /\ df = <<>> /\ pos = 1 /\ id_map = EmptyDict /\ items_loaded = 0
    /\ cust_map = EmptyDict /\ prod_map = EmptyDict
    /\ METRICS = NewMetrics
    /\ report = NoReport
    /\ tables = {} /\ db = NoRows /\ txn = NoRows
    /\ autoinc = [t \in TableNames |-> 1]
    /\ handles = {}
    /\ commits = NoCommits
    /\ loadedIdx = {} /\ resolvedIdx = {} /\ skippedIdx = {}
    /\ db_start = NoRows
    /\ first_run = NoFirstRun
    /\ phone_in = NaN
    /\ phone_out = None
    /\ date_in = <<>>
    /\ date_out = <<>>
    /\ call = NoCall

trackerFrame == <<pc, phase, run, files, df, id_map, cust_map, prod_map, items_loaded,
                  report, tables, db, txn, autoinc, handles, commits, loadedIdx,
                  resolvedIdx, skippedIdx, db_start, first_run, phone_in, phone_out,
                  date_in, date_out>>

\* One more call may be made; pos counts the calls.
CanCall == pc = "tracker" /\ pos <= MaxMetricCalls

TrackerRead ==
    /\ CanCall
    /\ \E file \in FileNames, n \in 0..MaxMetricCount :
          /\ METRICS' = read(METRICS, file, n)
          /\ call' = [op |-> "read", file |-> file]
    /\ pos' = pos + 1
    /\ UNCHANGED trackerFrame

TrackerDup ==
    /\ CanCall
    /\ \E file \in FileNames, n \in 0..MaxMetricCount :
          /\ METRICS' = dup(METRICS, file, n)
          /\ call' = [op |-> "dup", file |-> file]
    /\ pos' = pos + 1
    /\ UNCHANGED trackerFrame

TrackerFilled ==
    /\ CanCall
    /\ \E file \in FileNames, n \in 0..MaxMetricCount :
          /\ METRICS' = filled(METRICS, file, n)
          /\ call' = [op |-> "filled", file |-> file]
    /\ pos' = pos + 1
    /\ UNCHANGED trackerFrame

TrackerLoaded ==
    /\ CanCall
    /\ \E file \in FileNames, n \in 0..MaxMetricCount :
          /\ METRICS' = loaded(METRICS, file, n)
          /\ call' = [op |-> "loaded", file |-> file]
    /\ pos' = pos + 1
    /\ UNCHANGED trackerFrame

TrackerDropped ==
    /\ CanCall
    /\ \E file \in FileNames, reason \in Reasons, n \in 0..MaxMetricCount :
          /\ METRICS' = dropped(METRICS, file, reason, n)
          /\ call' = [op |-> "dropped", file |-> file]
    /\ pos' = pos + 1
    /\ UNCHANGED trackerFrame

NextMetrics ==
    \/ TrackerRead
    \/ TrackerDup
    \/ TrackerFilled
    \/ TrackerLoaded
    \/ TrackerDropped

SpecMetrics == InitMetrics /\ [][NextMetrics]_vars

-----------------------------------------------------------------------------
(* Properties.                                                             *)

CustFileRows == files.customers.rows
ProdFileRows == files.products.rows
SalesFileRows == files.sales.rows

\* The customer loader has returned and nothing has run since.
CustomersReturned == pc = "products"
\* The product loader has returned and nothing has run since.
ProductsReturned == pc = "sales"
\* The sales aggregator has returned and nothing has run since.
SalesReturned == pc = "report"

StoredWithEmail(e) ==
    Cardinality({i \in 1..Len(db.customers) : db.customers[i].email = e})

FirstWithEmail(rows, e) ==
    CHOOSE k \in 1..Len(rows) :
        rows[k].email = e /\ \A m \in 1..(k - 1) : rows[m].email # e

\* Two rows of the customer file with different ids and one present email.
SameEmailPair(rows, i, j) ==
    /\ i < j
    /\ rows[i].customer_id # rows[j].customer_id
    /\ rows[i].email = rows[j].email
    /\ ~isna(rows[i].email)

Processed == loadedIdx \cup resolvedIdx

\* C1, as claimed: two rows with different source ids and the same email
\* leave exactly one stored Customer row with that email and BOTH source ids
\* in the IdentityMap, mapped to the same surrogate key (stated for loads in
\* which no insert was skipped on a storage error).
C1_BothIdsMapped ==
    (CustomersReturned /\ skippedIdx = {}) =>
        \A i, j \in 1..Len(CustFileRows) :
            SameEmailPair(CustFileRows, i, j) =>
                /\ StoredWithEmail(CustFileRows[i].email) = 1
                /\ CustFileRows[i].customer_id \in DOMAIN cust_map
                /\ CustFileRows[j].customer_id \in DOMAIN cust_map
                /\ cust_map[CustFileRows[i].customer_id] = cust_map[CustFileRows[j].customer_id]

\* C1, amended: the later of two rows with different source ids and the same
\* email is removed by the de-duplication before the insert loop and counted
\* as a duplicate; at most one Customer row with that email is stored,
\* exactly one when the first row with that email was inserted or resolved
\* by the lookup; the IdentityMap holds exactly the source ids of the
\* surviving rows that were inserted or resolved, so the later row's id is
\* in it only if a surviving row carries the same id.
C1_LaterRowDropped ==
    CustomersReturned =>
        \A i, j \in 1..Len(CustFileRows) :
            SameEmailPair(CustFileRows, i, j) =>
                LET e == CustFileRows[i].email
                    k == FirstWithEmail(CustFileRows, e)
                IN /\ StoredWithEmail(e) <= 1
                   /\ (k \in Processed => StoredWithEmail(e) = 1)
                   /\ j \notin IdxOf(df)
                   /\ j \notin Processed \cup skippedIdx
                   /\ METRICS.metrics[CustomersFile].duplicates_removed >= 1
                   /\ DOMAIN cust_map =
                         {df[m].customer_id : m \in {n \in 1..Len(df) : df[n].idx \in Processed}}

\* C1, witness: ("C1", a), ("C2", a) loaded: one row stored, "C1" mapped and
\* "C2" not.
C1_Witness ==
    /\ CustomersReturned
    /\ Len(CustFileRows) = 2
    /\ SameEmailPair(CustFileRows, 1, 2)
    /\ StoredWithEmail(CustFileRows[1].email) = 1
    /\ 1 \in loadedIdx
    /\ DOMAIN cust_map = {CustFileRows[1].customer_id}

IsCanonicalPhone(p) ==
    /\ p.kind = "str"
    /\ Len(p.chars) = 14
    /\ SubSeq(p.chars, 1, 4) = <<"+", "9", "1", "-">>
    /\ \A i \in 5..14 : p.chars[i] \in Digits

\* C2: whatever clean_phone is given, it returns null or "+91-" followed by
\* exactly 10 decimal digits.
C2_PhoneCanonical ==
    pc = "returned" => (phone_out = None \/ IsCanonicalPhone(phone_out))

\* records_read - duplicates_removed - rows_dropped of a file.
Handed(file) ==
    METRICS.metrics[file].records_read - METRICS.metrics[file].duplicates_removed
        - METRICS.metrics[file].rows_dropped

Loaded(file) == METRICS.metrics[file].records_loaded

\* The loader of a phase is in its insert loop, or has just left it on an error.
InInsertStage(p, loop) == phase = p /\ pc \in {loop, "raised"}

\* C3: in the insert loop of each loader, records_read - duplicates_removed
\* - rows_dropped is the number of rows handed to the loop; when the loader
\* returns, records_loaded is at most that number, and for customers it is
\* smaller exactly when a row was resolved by the duplicate-email lookup or
\* skipped on an insert error.
C3_MetricsAccounting ==
    /\ InInsertStage("customers", "customers_loop") => Handed(CustomersFile) = Len(df)
    /\ InInsertStage("products", "products_loop") => Handed(ProductsFile) = Len(df)
    /\ InInsertStage("sales", "sales_loop") => Handed(SalesFile) = Len(df)
    /\ CustomersReturned =>
          /\ Loaded(CustomersFile) <= Handed(CustomersFile)
          /\ (Loaded(CustomersFile) < Handed(CustomersFile))
                <=> (resolvedIdx \cup skippedIdx # {})
    /\ ProductsReturned => Loaded(ProductsFile) <= Handed(ProductsFile)
    /\ SalesReturned => Loaded(SalesFile) <= Handed(SalesFile)

\* C3, witness: a customer load with a duplicate removed, a row dropped or
\* resolved by the lookup, and fewer rows loaded than handed to the loop.
C3_Witness ==
    /\ CustomersReturned
    /\ resolvedIdx # {}
    /\ skippedIdx = {}
    /\ Loaded(CustomersFile) >= 1
    /\ Loaded(CustomersFile) < Handed(CustomersFile)

\* The sales aggregator is past its transform and the process is still up.
InSales == phase = "sales" /\ pc \in {"sales_loop", "raised", "report"}

\* Rows inserted by this execution, committed or pending.
NewRows(table) ==
    SubSeq(Visible(db, txn, table), Len(db_start[table]) + 1,
           Len(Visible(db, txn, table)))

\* Index labels of the sales rows that are the first of their content.
SalesDeduplicated ==
    {i \in 1..Len(SalesFileRows) :
        \A j \in 1..(i - 1) : SalesFileRows[j] # SalesFileRows[i]}

Unresolved(r) ==
    r.customer_id \notin DOMAIN cust_map \/ r.product_id \notin DOMAIN prod_map

OrphanIdx == {i \in SalesDeduplicated : Unresolved(SalesFileRows[i])}

\* C4: the rows that survive de-duplication and whose customer id or product
\* id is in no IdentityMap are counted, each once and no other row, under
\* "orphan_record_missing_parent"; none of them reaches the insert loop, and
\* every Order and OrderItem inserted comes from a resolved row.
C4_Orphans ==
    InSales =>
        /\ METRICS.drop_reasons[SalesFile]["orphan_record_missing_parent"]
              = Cardinality(OrphanIdx)
        /\ OrphanIdx \cap IdxOf(df) = {}
        /\ OrphanIdx \cap loadedIdx = {}
        /\ Len(NewRows("order_items")) = Cardinality(loadedIdx)
        /\ \A n \in 1..Len(NewRows("order_items")) :
              \E i \in SalesDeduplicated \cap loadedIdx :
                  /\ ~Unresolved(SalesFileRows[i])
                  /\ NewRows("order_items")[n].product_id
                        = prod_map[SalesFileRows[i].product_id]
        /\ \A n \in 1..Len(NewRows("orders")) :
              \E i \in SalesDeduplicated :
                  /\ ~Unresolved(SalesFileRows[i])
                  /\ NewRows("orders")[n].customer_id
                        = cust_map[SalesFileRows[i].customer_id]

\* C4, witness: a sales file with one orphan row and one row that was loaded.
C4_Witness ==
    /\ SalesReturned
    /\ Cardinality(OrphanIdx) = 1
    /\ METRICS.drop_reasons[SalesFile]["orphan_record_missing_parent"] = 1
    /\ Cardinality(loadedIdx) = 1
    /\ Len(db.order_items) = 1

\* The order items of one order, in the order they were inserted.
ItemsOf(order) ==
    LET Mine(item) == item.order_id = order.order_id
    IN SelectSeq(NewRows("order_items"), Mine)

\* The rows handed to the insert loop that carry one transaction identifier.
RowsOf(trans_id) ==
    LET Mine(r) == r.transaction_id = trans_id
    IN SelectSeq(df, Mine)

\* C5: every transaction group inserted has one OrderItem per row of the
\* group, each with the row's quantity and unit price and subtotal =
\* quantity * unit_price, and the Order's total_amount is the sum of those
\* subtotals; when the aggregator returns, records_loaded of the sales file
\* is the number of OrderItems inserted.
C5_OrderTotals ==
    (phase = "sales" /\ pc \in {"sales_loop", "report"}) =>
        /\ Len(NewRows("orders")) = pos - 1
        /\ \A g \in 1..Len(NewRows("orders")) :
              LET order == NewRows("orders")[g]
                  items == ItemsOf(order)
                  group == RowsOf(group_keys(df)[g])
              IN /\ Len(items) = Len(group)
                 /\ \A k \in 1..Len(items) :
                       /\ items[k].quantity = group[k].quantity
                       /\ items[k].unit_price = group[k].unit_price
                       /\ items[k].subtotal = items[k].quantity * items[k].unit_price
                 /\ order.total_amount
                       = SumSeq([k \in 1..Len(items) |-> items[k].subtotal])
        /\ SalesReturned =>
              /\ Loaded(SalesFile) = Len(NewRows("order_items"))
              /\ Len(NewRows("order_items")) = Len(df)

\* C5, witness: the group (2, 10.00), (1, 5.00) stored as an order of 25.00
\* with items of 20.00 and 5.00, and two records loaded.
C5_Witness ==
    /\ SalesReturned
    /\ Len(db.orders) = 1
    /\ db.orders[1].total_amount = 2500
    /\ Len(db.order_items) = 2
    /\ db.order_items[1].quantity = 2 /\ db.order_items[1].subtotal = 2000
    /\ db.order_items[2].quantity = 1 /\ db.order_items[2].subtotal = 500
    /\ Loaded(SalesFile) = 2

Formats == {"%Y-%m-%d", "%d/%m/%Y", "%m-%d-%Y", "%m/%d/%Y"}

FailsAllFormats(s) == \A fmt \in Formats : isna(to_datetime(s, fmt))

\* Sales rows that are resolved and whose date no format parses.
BadDateIdx ==
    {i \in SalesDeduplicated :
        /\ ~Unresolved(SalesFileRows[i])
        /\ FailsAllFormats(SalesFileRows[i].transaction_date)}

\* Customer rows that reach the insert loop: first of their email, email present.
CustSurvivors ==
    LET rows == read_customers(CustFileRows)
        Survives(r) == /\ ~isna(r.email)
                       /\ \A m \in 1..(r.idx - 1) : rows[m].email # r.email
    IN SelectSeq(rows, Survives)

CustBadDateIdx ==
    {CustSurvivors[i].idx :
        i \in {n \in 1..Len(CustSurvivors) :
                  FailsAllFormats(CustSurvivors[n].registration_date)}}

\* The rows of the DataFrame whose INSERT succeeded, in order.
LoadedRows ==
    LET WasLoaded(r) == r.idx \in loadedIdx
    IN SelectSeq(df, WasLoaded)

\* C6: no Order is ever inserted with a null order_date; the resolved sales
\* rows whose transaction_date no format parses are counted under
\* "invalid_transaction_date" and never reach the insert loop; a customer
\* row whose registration_date no format parses stays in the load, is
\* stored with a null date and is counted as filled, not as dropped.
C6_RequiredDate ==
    /\ \A n \in 1..Len(Visible(db, txn, "orders")) :
          ~isna(Visible(db, txn, "orders")[n].order_date)
    /\ InSales =>
          /\ METRICS.drop_reasons[SalesFile]["invalid_transaction_date"]
                = Cardinality(BadDateIdx)
          /\ BadDateIdx \cap IdxOf(df) = {}
    /\ (phase = "customers" /\ pc \in {"customers_loop", "raised", "products"}) =>
          /\ CustBadDateIdx \subseteq IdxOf(df)
          /\ \A m \in 1..Len(df) :
                (df[m].idx \in CustBadDateIdx) <=> (df[m].registration_date = None)
          /\ METRICS.metrics[CustomersFile].missing_values_filled
                = Cardinality(CustBadDateIdx)
          /\ METRICS.metrics[CustomersFile].rows_dropped
                = Len(CustFileRows)
                    - METRICS.metrics[CustomersFile].duplicates_removed - Len(df)
          /\ Len(NewRows("customers")) = Len(LoadedRows)
          /\ \A k \in 1..Len(LoadedRows) :
                (LoadedRows[k].idx \in CustBadDateIdx)
                    <=> (NewRows("customers")[k].registration_date = None)

\* C6, witness: a run that stored a customer with a null registration date,
\* counted it as filled, dropped a sales row for its date and stored an order.
C6_Witness ==
    /\ SalesReturned
    /\ METRICS.drop_reasons[SalesFile]["invalid_transaction_date"] = 1
    /\ METRICS.metrics[CustomersFile].missing_values_filled = 1
    /\ METRICS.metrics[CustomersFile].rows_dropped = 0
    /\ \E n \in 1..Len(db.customers) : db.customers[n].registration_date = None
    /\ Len(db.orders) = 1

ProdDeduplicated ==
    LET rows == read_products(ProdFileRows)
        First(r) == \A m \in 1..(r.idx - 1) : rows[m].product_id # r.product_id
    IN SelectSeq(rows, First)

PricePresent(r) == ~isna(r.price)

StockAbsent(r) == isna(r.stock_quantity)

PriceAbsent(r) == isna(r.price)

\* C7: when the product loader returns, every de-duplicated row with a price
\* is stored, with stock_quantity 0 where the stock was absent and its own
\* stock otherwise; missing_values_filled counts the rows without stock,
\* rows_dropped and "missing_price" the rows without price, none of which
\* is stored.
C7_ProductStock ==
    ProductsReturned =>
        LET kept == SelectSeq(ProdDeduplicated, PricePresent)
            new == NewRows("products")
        IN /\ Len(new) = Len(kept)
           /\ \A k \in 1..Len(kept) :
                 /\ new[k].price = kept[k].price
                 /\ new[k].stock_quantity
                       = IF isna(kept[k].stock_quantity) THEN Num(0)
                         ELSE kept[k].stock_quantity
           /\ loadedIdx = IdxOf(kept)
           /\ METRICS.metrics[ProductsFile].missing_values_filled
                 = Len(SelectSeq(ProdDeduplicated, StockAbsent))
           /\ METRICS.metrics[ProductsFile].rows_dropped
                 = Len(SelectSeq(ProdDeduplicated, PriceAbsent))
           /\ METRICS.drop_reasons[ProductsFile]["missing_price"]
                 = Len(SelectSeq(ProdDeduplicated, PriceAbsent))

\* C7, witness: one row without stock stored with stock 0 and one row
\* without price dropped.
C7_Witness ==
    /\ ProductsReturned
    /\ Len(ProdFileRows) = 2
    /\ isna(ProdFileRows[1].stock_quantity) /\ ~isna(ProdFileRows[1].price)
    /\ isna(ProdFileRows[2].price) /\ ~isna(ProdFileRows[2].stock_quantity)
    /\ Len(db.products) = 1
    /\ db.products[1].stock_quantity = Num(0)
    /\ METRICS.metrics[ProductsFile].missing_values_filled = 1
    /\ METRICS.metrics[ProductsFile].rows_dropped = 1

\* C8: when the script is run a second time on the same files and the
\* database the first run left, with the same rows rejected by the database
\* in both runs, the customer loader inserts no Customer row, resolves every
\* row it does not skip by the lookup, and returns the IdentityMap of the
\* first run; the product loader stores every product a second time.
C8_Rerun ==
    /\ (/\ run = "second" /\ phase = "customers" /\ pc = "products"
        /\ first_run.cust_done
        /\ skippedIdx = first_run.cust_skipped) =>
          /\ loadedIdx = {}
          /\ resolvedIdx = IdxOf(df) \ skippedIdx
          /\ db.customers = db_start.customers
          /\ cust_map = first_run.cust_map
    /\ (run = "second" /\ phase = "products" /\ pc = "sales" /\ first_run.prod_done) =>
          /\ Len(db.products) = 2 * Len(db_start.products)
          /\ \A k \in 1..Len(db_start.products) :
                db.products[Len(db_start.products) + k].price
                    = db_start.products[k].price

\* C8, witness: the second run has finished both loaders over two customers
\* and two products that the first run stored.
C8_Witness ==
    /\ run = "second" /\ phase = "products" /\ pc = "sales"
    /\ first_run.cust_done /\ first_run.prod_done
    /\ Cardinality(DOMAIN first_run.cust_map) = 2
    /\ cust_map = first_run.cust_map
    /\ Len(db.customers) = 2
    /\ Len(db_start.products) = 2
    /\ Len(db.products) = 4

\* The tables a phase inserts into.
TablesOf(p) ==
    CASE p = "customers" -> {"customers"}
      [] p = "products" -> {"products"}
      [] p = "sales" -> {"orders", "order_items"}
      [] OTHER -> {}

LoopOf(p) ==
    CASE p = "customers" -> "customers_loop"
      [] p = "products" -> "products_loop"
      [] p = "sales" -> "sales_loop"
      [] OTHER -> "none"

IsPrefix(s, t) == Len(s) <= Len(t) /\ SubSeq(t, 1, Len(s)) = s

\* C9: a loader commits once, after its loop: while it is in the loop, and
\* after it failed in the loop, it has not committed and its tables hold
\* what they held before the run; the rows of the loaders that returned
\* before it are stored.
C9_SingleCommit ==
    /\ \A l \in DOMAIN commits : commits[l] <= 1
    /\ commits.customers = 1 <=>
          (phase \in {"products", "sales", "report"}
              \/ (phase = "customers" /\ pc = "products"))
    /\ commits.products = 1 <=>
          (phase \in {"sales", "report"} \/ (phase = "products" /\ pc = "sales"))
    /\ commits.sales = 1 <=>
          (phase = "report" \/ (phase = "sales" /\ pc = "report"))
    /\ (pc \in {LoopOf(phase), "raised", "exited"}) =>
          \A tb \in TablesOf(phase) : db[tb] = db_start[tb]
    /\ pc = "exited" => txn = NoRows
    /\ \A tb \in TableNames : IsPrefix(db_start[tb], db[tb])
    /\ \A id \in DOMAIN cust_map :
          \E n \in 1..Len(db.customers) : db.customers[n].customer_id = cust_map[id]
    /\ \A id \in DOMAIN prod_map :
          \E n \in 1..Len(db.products) : db.products[n].product_id = prod_map[id]

\* C9, witness: the product loader failed after a successful INSERT; no
\* product is stored and the customers of the loader before it are.
C9_Witness ==
    /\ pc = "exited" /\ phase = "products"
    /\ loadedIdx # {}
    /\ db.products = db_start.products
    /\ DOMAIN cust_map # {}
    /\ Len(db.customers) > Len(db_start.customers)

\* C10: once a phase has ended, by returning or by raising, the connection
\* and the cursor it opened are closed.
C10_HandlesReleased ==
    (pc \in {"customers", "products", "sales", "report", "done", "raised", "exited"})
        => handles = {}

\* C11 as stated: an INSERT that fails in the product loader or in the sales
\* aggregator does not end the loader.
C11_InsertFailureNonFatal ==
    phase \in {"products", "sales"} => pc \notin {"raised", "exited"}

\* C11: only the customer loader skips a row whose INSERT fails: the step
\* that skips it changes neither the storage nor the id_map and goes to the
\* next row, and when the loader returns every row handed to the loop was
\* inserted, resolved or skipped and the inserted ones are committed.  The
\* product loader and the sales aggregator never skip a row; once an error
\* was raised the process only exits: no phase starts and the committed
\* rows do not change.
C11_SkipOnlyInCustomers ==
    /\ [](phase \in {"products", "sales"} => skippedIdx = {})
    /\ [](CustomersReturned =>
             /\ loadedIdx \cup resolvedIdx \cup skippedIdx = IdxOf(df)
             /\ Len(NewRows("customers")) = Cardinality(loadedIdx)
             /\ txn = NoRows
             /\ commits.customers = 1)
    /\ [][/\ skippedIdx' \notin {skippedIdx, {}} =>
               /\ phase = "customers" /\ pc' = "customers_loop"
               /\ pos' = pos + 1
               /\ db' = db /\ txn' = txn /\ id_map' = id_map
          /\ pc \in {"raised", "exited"} =>
               /\ pc' = "exited" /\ phase' = phase
               /\ db' = db /\ commits' = commits]_vars

\* C11, witness: the customer loader skipped a row, inserted a later one
\* and committed.
C11_Witness ==
    /\ CustomersReturned
    /\ \E i \in skippedIdx : \E j \in loadedIdx : i < j
    /\ Len(NewRows("customers")) = 1
    /\ db.customers # db_start.customers

\* The date of one entry: the first reading, in the order year-month-day,
\* day/month/year, month-day-year, month/day/year, that is a calendar date.
FirstParsed(s) ==
    IF isna(s) THEN NaT
    ELSE IF s.sep = "-" /\ ValidDate(s.a, s.b, s.c) THEN Date(s.a, s.b, s.c)
    ELSE IF s.sep = "/" /\ ValidDate(s.c, s.b, s.a) THEN Date(s.c, s.b, s.a)
    ELSE IF s.sep = "-" /\ ValidDate(s.c, s.a, s.b) THEN Date(s.c, s.a, s.b)
    ELSE IF s.sep = "/" /\ ValidDate(s.c, s.a, s.b) THEN Date(s.c, s.a, s.b)
    ELSE NaT

\* C12: clean_date_series returns a series of the length of its input whose
\* i-th entry is the date of the i-th input under the first format that
\* parses it, or null; the year-month-day string of a date it returned
\* normalizes to that date.
C12_FirstFormatWins ==
    (phase = "clean_date_series" /\ pc = "returned") =>
        /\ Len(date_out) = Len(date_in)
        /\ \A i \in 1..Len(date_in) :
              /\ date_out[i] = FirstParsed(date_in[i])
              /\ date_out[i] = NaT \/ date_out[i].kind = "date"
              /\ date_out[i] # NaT =>
                    clean_date_series(<<strftime_or_none(date_out[i])>>)
                        = <<date_out[i]>>

\* C12, witness: "03/04/2024" normalized to 3 April 2024, next to an entry
\* no format parses.
C12_Witness ==
    /\ phase = "clean_date_series" /\ pc = "returned"
    /\ date_in = <<DateStr(3, 4, 2024, "/"), DateStr(4, 31, 2024, "/")>>
    /\ date_out = <<Date(2024, 4, 3), NaT>>

\* The place of a phase in __main__.
PhaseRank(p) ==
    CASE p = "schema" -> 0
      [] p = "customers" -> 1
      [] p = "products" -> 2
      [] p = "sales" -> 3
      [] p = "report" -> 4

\* What the phase before p has done when it returned.
PreviousCompleted(p) ==
    CASE p = "customers" -> tables = TableNames /\ pc = "customers"
      [] p = "products" -> commits.customers = 1 /\ pc = "products"
      [] p = "sales" -> commits.products = 1 /\ pc = "sales"
      [] p = "report" -> commits.sales = 1 /\ pc = "report"
      [] OTHER -> FALSE

\* C13: a phase starts only as the successor of the phase before it, after
\* that phase returned with its work done and its handles closed; the
\* IdentityMaps are assigned once each, by the return of their loader, and
\* never change while the sales aggregator or the report runs; after a
\* phase raised no phase starts, and after schema provisioning raised no
\* file was read and no row stored.
C13_PhaseOrder ==
    /\ [][phase' # phase =>
             /\ PhaseRank(phase') = PhaseRank(phase) + 1
             /\ PreviousCompleted(phase')
             /\ handles = {} /\ txn = NoRows]_vars
    /\ [][/\ cust_map' # cust_map => (phase = "customers" /\ pc' = "products")
          /\ prod_map' # prod_map => (phase = "products" /\ pc' = "sales")
          /\ phase \in {"sales", "report"} =>
                (cust_map' = cust_map /\ prod_map' = prod_map)]_vars
    /\ [][(pc = "raised" \/ pc = "exited") =>
             (phase' = phase /\ pc' = "exited" /\ files' = files)]_vars
    /\ []((phase = "schema" /\ pc \in {"raised", "exited"}) =>
             /\ \A f \in DOMAIN files : ~files[f].read
             /\ db = db_start
             /\ cust_map = EmptyDict /\ prod_map = EmptyDict)

\* C13, witness: a run that went through the five phases with both
\* IdentityMaps in use and an order stored.
C13_Witness ==
    /\ phase = "report" /\ pc = "done"
    /\ commits = [customers |-> 1, products |-> 1, sales |-> 1]
    /\ DOMAIN cust_map # {} /\ DOMAIN prod_map # {}
    /\ Len(db.orders) >= 1

RECURSIVE SumOver(_, _)
\* The sum of f over the set S of its arguments.
SumOver(f, S) ==
    IF S = {} THEN 0
    ELSE LET x == CHOOSE x \in S : TRUE IN f[x] + SumOver(f, S \ {x})

\* C14: for every file rows_dropped is the sum of the file's drop_reasons
\* counts; a call decreases no counter and no drop reason of any file, and
\* changes nothing for the files it was not made for.
C14_MetricsTracker ==
    /\ [](\A f \in FileNames :
             METRICS.metrics[f].rows_dropped
                 = SumOver(METRICS.drop_reasons[f], DOMAIN METRICS.drop_reasons[f]))
    /\ [][\A f \in FileNames :
             /\ \A c \in DOMAIN METRICS.metrics[f] :
                   METRICS'.metrics[f][c] >= METRICS.metrics[f][c]
             /\ \A r \in DOMAIN METRICS.drop_reasons[f] :
                   METRICS'.drop_reasons[f][r] >= METRICS.drop_reasons[f][r]
             /\ f # call'.file =>
                   /\ METRICS'.metrics[f] = METRICS.metrics[f]
                   /\ METRICS'.drop_reasons[f] = METRICS.drop_reasons[f]]_vars

\* C14, witness: a file with rows dropped for two reasons after a call for
\* another file.
C14_Witness ==
    /\ phase = "metrics"
    /\ METRICS.drop_reasons[SalesFile]["orphan_record_missing_parent"] = 1
    /\ METRICS.drop_reasons[SalesFile]["invalid_transaction_date"] = 1
    /\ METRICS.metrics[SalesFile].rows_dropped = 2
    /\ METRICS.metrics[CustomersFile].records_read = 1
    /\ call.file = CustomersFile

\* The keys stored in a table under a key column.
KeysOf(rows, column) == {rows[n][column] : n \in 1..Len(rows)}

\* C15: once the sales aggregator has committed, every stored Order names
\* a stored Customer, every stored OrderItem names a stored Product and a
\* stored Order; and whenever a loader has returned its IdentityMap, every
\* value of the map is the key of a committed row.
C15_ReferentialIntegrity ==
    /\ (phase \in {"sales", "report"} /\ pc \in {"report", "done"}) =>
          /\ commits.sales = 1
          /\ KeysOf(db.orders, "customer_id") \subseteq KeysOf(db.customers, "customer_id")
          /\ KeysOf(db.order_items, "product_id") \subseteq KeysOf(db.products, "product_id")
          /\ KeysOf(db.order_items, "order_id") \subseteq KeysOf(db.orders, "order_id")
    /\ {cust_map[id] : id \in DOMAIN cust_map} \subseteq KeysOf(db.customers, "customer_id")
    /\ {prod_map[id] : id \in DOMAIN prod_map} \subseteq KeysOf(db.products, "product_id")

\* C15, witness: an order stored for a customer whose key came from the
\* duplicate-email lookup of a row an earlier execution had stored, next to
\* a customer inserted by this execution.
C15_Witness ==
    /\ phase = "sales" /\ pc = "report"
    /\ db_start.customers = <<ExistingCustomer>>
    /\ Len(db.customers) = 2
    /\ \E id \in DOMAIN cust_map : cust_map[id] = ExistingCustomer.customer_id
    /\ \E n \in 1..Len(db.orders) :
          db.orders[n].customer_id = ExistingCustomer.customer_id
    /\ Len(db.order_items) >= 1

\* Index labels of the customer file rows whose email is missing.
NoEmailIdx == {i \in 1..Len(CustFileRows) : isna(CustFileRows[i].email)}

\* Index labels of the rows that repeat the email of an earlier row.
RepeatedEmailIdx ==
    {i \in 1..Len(CustFileRows) :
        /\ ~isna(CustFileRows[i].email)
        /\ \E j \in 1..(i - 1) : CustFileRows[j].email = CustFileRows[i].email}

\* C16: once the customer loader has transformed a file with k >= 1 rows
\* without email, "missing_email" counts 1 and duplicates_removed counts
\* the other k - 1 besides the rows that repeat an email; none of the k
\* rows reaches the insert loop, is inserted, or is resolved into the
\* IdentityMap, and no customer stored by the run lacks an email.
C16_MissingEmail ==
    (phase = "customers" /\ pc \in {"customers_loop", "products", "raised", "exited"}) =>
        /\ METRICS.drop_reasons[CustomersFile]["missing_email"]
              = IF NoEmailIdx = {} THEN 0 ELSE 1
        /\ METRICS.metrics[CustomersFile].duplicates_removed
              = Cardinality(RepeatedEmailIdx)
                  + IF NoEmailIdx = {} THEN 0 ELSE Cardinality(NoEmailIdx) - 1
        /\ NoEmailIdx \cap (IdxOf(df) \cup loadedIdx \cup resolvedIdx \cup skippedIdx) = {}
        /\ Cardinality(DOMAIN id_map) <= Len(CustFileRows) - Cardinality(NoEmailIdx)
        /\ \A n \in 1..Len(NewRows("customers")) :
              ~isna(NewRows("customers")[n].email)

\* C16, witness: a file of two rows without email: one dropped for its
\* email, the other removed as a duplicate, nothing loaded.
C16_Witness ==
    /\ CustomersReturned
    /\ Cardinality(NoEmailIdx) = 2
    /\ METRICS.drop_reasons[CustomersFile]["missing_email"] = 1
    /\ METRICS.metrics[CustomersFile].duplicates_removed = 1
    /\ METRICS.metrics[CustomersFile].records_loaded = 0
    /\ cust_map = EmptyDict

\* Index labels of the sales rows that survive de-duplication, the orphan
\* removal and the date validation.
SurvivingIdx == SalesDeduplicated \ (OrphanIdx \cup BadDateIdx)

SurvivingTransactions == {SalesFileRows[i].transaction_id : i \in SurvivingIdx}

\* The n-th transaction identifier in ascending order.
NthTransaction(n) ==
    CHOOSE tid \in SurvivingTransactions :
        Cardinality({other \in SurvivingTransactions : other < tid}) = n - 1

\* The first surviving row of a transaction, in source order.
FirstRowOf(tid) ==
    LET mine == {i \in SurvivingIdx : SalesFileRows[i].transaction_id = tid}
    IN SalesFileRows[CHOOSE i \in mine : \A j \in mine : i <= j]

====
